---- MODULE Spec2Model ----
(***************************************************************************)
(* Model of the word-frequency MapReduce pipeline of                       *)
(* mapreduce_word_analysis.py (class MapReduceWordAnalyzer).               *)
(*                                                                         *)
(* Texts are sequences of one-character strings.  A word is a non-empty    *)
(* sequence of non-whitespace characters.  A Python dict is a sequence of  *)
(* <<key, value>> pairs with distinct keys, in insertion order.            *)
(***************************************************************************)
EXTENDS Integers, Sequences, FiniteSets, TLC

VARIABLES
  \* ---- one call of mapreduce_word_count followed by get_top_words
  text,              \* the argument of mapreduce_word_count
  num_workers,       \* self.num_workers
  top_n,             \* the top_n argument of get_top_words
  pc,                \* position of the calling thread
  clean_text,        \* the local `text` after preprocess_text
  text_chunks,       \* the local text_chunks
  futures,           \* the future of each submitted chunk: its state and result
  mapped_results,    \* results collected so far by list(executor.map(...))
  word_frequencies,  \* the value returned by mapreduce_word_count
  top_words,         \* the value returned by get_top_words
  error,             \* the exception that left the call, "" when none
  \* ---- preprocess_text applied once and twice
  pp_pc, pp_text, pp_once, pp_twice,
  \* ---- split_text_into_chunks
  sp_pc, sp_text, sp_num_chunks, sp_chunks,
  \* ---- reduce_function on a list of lists and on a permutation of it
  rd_pc, rd_data, rd_out, rd_perm_out,
  \* ---- get_top_words
  tk_pc, tk_table, tk_n, tk_out,
  \* ---- map_function
  mp_pc, mp_chunk, mp_out,
  \* ---- AsyncFileSorter.process_files
  fs_pc,             \* position of sort_files
  fs_files,          \* the list returned by read_folder
  fs_groups,         \* extension_groups: the state of the coroutine of each group
  fs_tasks,          \* the copy_file coroutine of each file
  fs_disk,           \* the files of the output folder
  files_processed,   \* self.files_processed
  errors_count,      \* self.errors_count
  \* ---- main of the word analysis, from the return of mapreduce_word_count
  mn_pc,             \* position of main
  mn_table,          \* the local word_frequencies
  mn_top_n,          \* args.top_words
  mn_top_words,      \* the local top_words
  mn_error           \* the exception caught by main, "" when none

pipeVars == <<text, num_workers, top_n, pc, clean_text, text_chunks, futures,
              mapped_results, word_frequencies, top_words, error>>
ppVars == <<pp_pc, pp_text, pp_once, pp_twice>>
spVars == <<sp_pc, sp_text, sp_num_chunks, sp_chunks>>
rdVars == <<rd_pc, rd_data, rd_out, rd_perm_out>>
tkVars == <<tk_pc, tk_table, tk_n, tk_out>>
mpVars == <<mp_pc, mp_chunk, mp_out>>
fsVars == <<fs_pc, fs_files, fs_groups, fs_tasks, fs_disk, files_processed,
            errors_count>>
mnVars == <<mn_pc, mn_table, mn_top_n, mn_top_words, mn_error>>
vars == <<pipeVars, ppVars, spVars, rdVars, tkVars, mpVars, fsVars, mnVars>>

-----------------------------------------------------------------------------
(* Bounds of the model *)

\* longest raw text given to preprocess_text
MaxRawLen == 5
\* longest text given to split_text_into_chunks
MaxTextLen == 5
\* most tokens in a text given to mapreduce_word_count, most pairs in the
\* input of reduce_function
MaxWords == 3
\* largest worker count / number of chunks
MaxWorkers == 3
\* largest top_n requested from the pipeline
MaxTopN == 2
\* largest count in a table given to get_top_words
MaxCount == 2
\* longest chunk given to map_function
MaxChunkLen == 7
\* longest raw text without words given to the pipeline
MaxEmptyLen == 2
\* most files in the list given to process_files
MaxFiles == 3

-----------------------------------------------------------------------------
(* Characters *)

LowerLetters == {"a", "n", "d"}
Whitespace == {" ", "\n"}
\* the characters of the raw texts given to preprocess_text: a lowercase and
\* an uppercase letter, a digit, the two whitespace characters, the brackets
RawChars == {"a", "A", "1", " ", "\n", "<", ">"}

\* all sequences over S of length at most n
SeqsUpTo(S, n) == UNION {[1..k -> S] : k \in 0..n}

RECURSIVE Concat(_)
Concat(ss) == IF ss = <<>> THEN <<>> ELSE Head(ss) \o Concat(Tail(ss))

RECURSIVE SumLen(_)
SumLen(ss) == IF ss = <<>> THEN 0 ELSE Len(Head(ss)) + SumLen(Tail(ss))

Min(a, b) == IF a < b THEN a ELSE b

-----------------------------------------------------------------------------
(* str.strip, str.split, str.join, str.lower *)

RECURSIVE LStrip(_)
LStrip(s) ==
  IF s # <<>> /\ Head(s) \in Whitespace THEN LStrip(Tail(s)) ELSE s

RECURSIVE RStrip(_)
RStrip(s) ==
  IF s # <<>> /\ s[Len(s)] \in Whitespace
  THEN RStrip(SubSeq(s, 1, Len(s) - 1))
  ELSE s

Strip(s) == RStrip(LStrip(s))

\* length of the longest prefix of s without whitespace
RECURSIVE WordLen(_)
WordLen(s) ==
  IF s # <<>> /\ Head(s) \notin Whitespace THEN 1 + WordLen(Tail(s)) ELSE 0

\* str.split(): the maximal runs of non-whitespace characters, in order
RECURSIVE SplitWS(_)
SplitWS(s) ==
  LET t == LStrip(s)
      k == WordLen(t)
  IN IF t = <<>> THEN <<>>
     ELSE <<SubSeq(t, 1, k)>> \o SplitWS(SubSeq(t, k + 1, Len(t)))

\* ' '.join(words)
RECURSIVE Join(_)
Join(words) ==
  IF words = <<>> THEN <<>>
  ELSE IF Len(words) = 1 THEN Head(words)
  ELSE Head(words) \o <<" ">> \o Join(Tail(words))

LowerChar(c) ==
  CASE c = "A" -> "a"
    [] c = "T" -> "t"
    [] c = "X" -> "x"
    [] OTHER -> c

Lower(s) == [i \in 1..Len(s) |-> LowerChar(s[i])]

-----------------------------------------------------------------------------
(* preprocess_text *)

\* index of the ">" closing a match of <[^>]+> that starts at s[1], 0 if none
TagEnd(s) ==
  IF Len(s) >= 3 /\ s[1] = "<" /\ s[2] # ">" /\ \E j \in 3..Len(s) : s[j] = ">"
  THEN CHOOSE j \in 3..Len(s) : s[j] = ">" /\ \A k \in 3..(j - 1) : s[k] # ">"
  ELSE 0

\* re.sub(r'<[^>]+>', '', text)
RECURSIVE RemoveTags(_)
RemoveTags(s) ==
  IF s = <<>> THEN <<>>
  ELSE IF TagEnd(s) > 0 THEN RemoveTags(SubSeq(s, TagEnd(s) + 1, Len(s)))
  ELSE <<Head(s)>> \o RemoveTags(Tail(s))

\* re.sub(r'\s+', ' ', text)
RECURSIVE CollapseWhitespace(_)
CollapseWhitespace(s) ==
  IF s = <<>> THEN <<>>
  ELSE IF Head(s) \in Whitespace THEN <<" ">> \o CollapseWhitespace(LStrip(s))
  ELSE <<Head(s)>> \o CollapseWhitespace(Tail(s))

IsLetterOrSpace(c) == c \in LowerLetters \cup Whitespace

\* re.sub(r'[^a-z\s]', '', text)
RemoveNonLetters(s) == SelectSeq(s, IsLetterOrSpace)

preprocess_text(t) ==
  Strip(RemoveNonLetters(CollapseWhitespace(Lower(RemoveTags(t)))))

-----------------------------------------------------------------------------
(* self.stop_words *)

stop_words ==
  {
    <<"t","h","e">>, <<"a">>, <<"a","n">>, <<"a","n","d">>, <<"o","r">>, <<"b","u","t">>,
    <<"i","n">>, <<"o","n">>, <<"a","t">>, <<"t","o">>, <<"f","o","r">>, <<"o","f">>,
    <<"w","i","t","h">>, <<"b","y">>, <<"f","r","o","m">>, <<"u","p">>,
    <<"a","b","o","u","t">>, <<"i","n","t","o">>, <<"t","h","r","o","u","g","h">>,
    <<"d","u","r","i","n","g">>, <<"b","e","f","o","r","e">>, <<"a","f","t","e","r">>,
    <<"a","b","o","v","e">>, <<"b","e","l","o","w">>, <<"a","s">>, <<"i","s">>,
    <<"w","a","s">>, <<"a","r","e">>, <<"w","e","r","e">>, <<"b","e">>, <<"b","e","e","n">>,
    <<"b","e","i","n","g">>, <<"h","a","v","e">>, <<"h","a","s">>, <<"h","a","d">>,
    <<"d","o">>, <<"d","o","e","s">>, <<"d","i","d">>, <<"w","i","l","l">>,
    <<"w","o","u","l","d">>, <<"c","o","u","l","d">>, <<"s","h","o","u","l","d">>,
    <<"m","a","y">>, <<"m","i","g","h","t">>, <<"m","u","s","t">>, <<"c","a","n">>,
    <<"s","h","a","l","l">>, <<"t","h","i","s">>, <<"t","h","a","t">>, <<"t","h","e","s","e">>,
    <<"t","h","o","s","e">>, <<"i">>, <<"y","o","u">>, <<"h","e">>, <<"s","h","e">>,
    <<"i","t">>, <<"w","e">>, <<"t","h","e","y">>, <<"t","h","e","m">>,
    <<"t","h","e","i","r">>, <<"w","h","a","t">>, <<"w","h","i","c","h">>, <<"w","h","o">>,
    <<"w","h","e","n">>, <<"w","h","e","r","e">>, <<"w","h","y">>, <<"h","o","w">>,
    <<"a","l","l">>, <<"a","n","y">>, <<"b","o","t","h">>, <<"e","a","c","h">>,
    <<"f","e","w">>, <<"m","o","r","e">>, <<"m","o","s","t">>, <<"o","t","h","e","r">>,
    <<"s","o","m","e">>, <<"s","u","c","h">>, <<"n","o">>, <<"n","o","r">>, <<"n","o","t">>,
    <<"o","n","l","y">>, <<"o","w","n">>, <<"s","a","m","e">>, <<"s","o">>,
    <<"t","h","a","n">>, <<"t","o","o">>, <<"v","e","r","y">>, <<"s">>, <<"t">>,
    <<"j","u","s","t">>, <<"d","o","n">>, <<"n","o","w">>, <<"i","f">>, <<"t","h","e","n">>,
    <<"o","n","c","e">>
  }

-----------------------------------------------------------------------------
(* split_text_into_chunks, for num_chunks >= 1.  range(num_chunks) is empty *)
(* for num_chunks < 0 and len(words) // 0 raises ZeroDivisionError: the     *)
(* callers below handle those two cases.                                     *)

\* variant: the end of a chunk taken as an inclusive index
chunk_bounds_overlap(total, num_chunks, i) ==
  LET chunk_size == total \div num_chunks
      start == i * chunk_size
      end == IF i = num_chunks - 1 THEN total
             ELSE Min(total, (i + 1) * chunk_size + 1)
  IN <<start, end>>

\* variant: the last chunk not extended to the end of the text
chunk_bounds_no_remainder(total, num_chunks, i) ==
  LET chunk_size == total \div num_chunks
  IN <<i * chunk_size, (i + 1) * chunk_size>>

\* variant: the remainder given to the first chunk
chunk_bounds_remainder_first(total, num_chunks, i) ==
  LET chunk_size == total \div num_chunks
      extra == total - num_chunks * chunk_size
      start == IF i = 0 THEN 0 ELSE i * chunk_size + extra
      end == (i + 1) * chunk_size + extra
  IN <<start, end>>

chunk_bounds(total, num_chunks, i) ==
  LET chunk_size == total \div num_chunks
      start == i * chunk_size
      end == IF i = num_chunks - 1 THEN total ELSE (i + 1) * chunk_size
  IN <<start, end>>

split_text_into_chunks(t, num_chunks) ==
  LET words == SplitWS(t)
  IN [k \in 1..num_chunks |->
        LET b == chunk_bounds(Len(words), num_chunks, k - 1)
        IN Join(SubSeq(words, b[1] + 1, b[2]))]

-----------------------------------------------------------------------------
(* map_function *)

\* variant: len(word) >= 2
keeps_word_short(word) == Len(Strip(word)) >= 2 /\ Strip(word) \notin stop_words

\* the filter of map_function on one word of the chunk
keeps_word(word) == Len(Strip(word)) > 2 /\ Strip(word) \notin stop_words

\* variant: a word is emitted at its first occurrence only
map_function_distinct(text_chunk) ==
  LET words == SplitWS(text_chunk)
      kept == SelectSeq(words, keeps_word)
      first == {i \in 1..Len(kept) : \A j \in 1..(i - 1) : kept[j] # kept[i]}
      out[i \in 0..Len(kept)] ==
        IF i = 0 THEN <<>>
        ELSE IF i \in first THEN Append(out[i - 1], <<Strip(kept[i]), 1>>)
        ELSE out[i - 1]
  IN out[Len(kept)]

map_function(text_chunk) ==
  LET words == SplitWS(text_chunk)
      kept == SelectSeq(words, keeps_word)
  IN [i \in 1..Len(kept) |-> <<Strip(kept[i]), 1>>]

-----------------------------------------------------------------------------
(* reduce_function *)

Keys(d) == {d[i][1] : i \in 1..Len(d)}

Value(d, k) == d[CHOOSE i \in 1..Len(d) : d[i][1] = k][2]

\* variant: word_count[word] = count
dict_add_overwrite(d, word, count) ==
  IF word \in Keys(d)
  THEN [i \in 1..Len(d) |-> IF d[i][1] = word THEN <<word, count>> ELSE d[i]]
  ELSE Append(d, <<word, count>>)

\* word_count[word] += count on a defaultdict(int)
dict_add(d, word, count) ==
  IF word \in Keys(d)
  THEN [i \in 1..Len(d) |->
          IF d[i][1] = word THEN <<word, d[i][2] + count>> ELSE d[i]]
  ELSE Append(d, <<word, 0 + count>>)

\* the inner loop: for word, count in word_list
RECURSIVE reduce_word_list(_, _)
reduce_word_list(d, word_list) ==
  IF word_list = <<>> THEN d
  ELSE reduce_word_list(dict_add(d, Head(word_list)[1], Head(word_list)[2]),
                        Tail(word_list))

\* the outer loop: for word_list in mapped_data
RECURSIVE reduce_lists(_, _)
reduce_lists(d, mapped_data) ==
  IF mapped_data = <<>> THEN d
  ELSE reduce_lists(reduce_word_list(d, Head(mapped_data)), Tail(mapped_data))

reduce_function(mapped_data) == reduce_lists(<<>>, mapped_data)

-----------------------------------------------------------------------------
(* get_top_words: Counter(word_frequencies).most_common(top_n), which is     *)
(* heapq.nlargest(top_n, items, key=count): the items sorted by count,       *)
(* largest first, items of equal count in the order of the dict, cut to      *)
(* top_n items; empty for top_n <= 0.                                        *)

\* x goes before the first item of a smaller count
RECURSIVE insert_desc(_, _)
insert_desc(sorted, x) ==
  IF sorted = <<>> THEN <<x>>
  ELSE IF Head(sorted)[2] < x[2] THEN <<x>> \o sorted
  ELSE <<Head(sorted)>> \o insert_desc(Tail(sorted), x)

RECURSIVE sort_desc(_, _)
sort_desc(sorted, items) ==
  IF items = <<>> THEN sorted
  ELSE sort_desc(insert_desc(sorted, Head(items)), Tail(items))

\* variant: the items cut to n without sorting
nlargest_unsorted(n, items) ==
  IF n <= 0 THEN <<>> ELSE SubSeq(items, 1, Min(n, Len(items)))

nlargest(n, items) ==
  IF n <= 0 THEN <<>>
  ELSE SubSeq(sort_desc(<<>>, items), 1, Min(n, Len(items)))

get_top_words(table, n) == nlargest(n, table)

-----------------------------------------------------------------------------
(* preprocess_text applied to a raw text, and again to its own output *)

PPInit ==
  /\ pp_pc = "input"
  /\ pp_text \in SeqsUpTo(RawChars, MaxRawLen)
  /\ pp_once = <<>>
  /\ pp_twice = <<>>

PPIdle ==
  /\ pp_pc = "idle"
  /\ pp_text = <<>>
  /\ pp_once = <<>>
  /\ pp_twice = <<>>

Preprocess ==
  /\ pp_pc = "input"
  /\ pp_once' = preprocess_text(pp_text)
  /\ pp_pc' = "once"
  /\ UNCHANGED <<pp_text, pp_twice>>
  /\ UNCHANGED <<pipeVars, spVars, rdVars, tkVars, mpVars, fsVars, mnVars>>

PreprocessAgain ==
  /\ pp_pc = "once"
  /\ pp_twice' = preprocess_text(pp_once)
  /\ pp_pc' = "twice"
  /\ UNCHANGED <<pp_text, pp_once>>
  /\ UNCHANGED <<pipeVars, spVars, rdVars, tkVars, mpVars, fsVars, mnVars>>

-----------------------------------------------------------------------------
(* split_text_into_chunks applied to a text *)

SPInit ==
  /\ sp_pc = "input"
  /\ sp_text \in SeqsUpTo(LowerLetters \cup {" "}, MaxTextLen)
  /\ sp_num_chunks \in 1..MaxWorkers
  /\ sp_chunks = <<>>

SPIdle ==
  /\ sp_pc = "idle"
  /\ sp_text = <<>>
  /\ sp_num_chunks = 1
  /\ sp_chunks = <<>>

Split ==
  /\ sp_pc = "input"
  /\ sp_chunks' = split_text_into_chunks(sp_text, sp_num_chunks)
  /\ sp_pc' = "split"
  /\ UNCHANGED <<sp_text, sp_num_chunks>>
  /\ UNCHANGED <<pipeVars, ppVars, rdVars, tkVars, mpVars, fsVars, mnVars>>

-----------------------------------------------------------------------------
(* reduce_function applied to a list of word lists and to a permutation *)

RdWords == {<<"a","d","d">>, <<"d","a","d">>}
RdCounts == {1, 2}
RdPairs == {<<w, c>> : w \in RdWords, c \in RdCounts}

\* the lists of n word lists holding at most budget pairs in all
RECURSIVE SegData(_, _)
SegData(n, budget) ==
  IF n = 0 THEN {<<>>}
  ELSE UNION {{<<l>> \o rest : rest \in SegData(n - 1, budget - Len(l))} :
                l \in SeqsUpTo(RdPairs, budget)}

Permute(data, p) == [i \in 1..Len(data) |-> data[p[i]]]

RDInit ==
  /\ rd_pc = "input"
  /\ rd_data \in UNION {SegData(n, MaxWords) : n \in 0..MaxWorkers}
  /\ rd_out = <<>>
  /\ rd_perm_out = <<>>

RDIdle ==
  /\ rd_pc = "idle"
  /\ rd_data = <<>>
  /\ rd_out = <<>>
  /\ rd_perm_out = <<>>

Reduce ==
  /\ rd_pc = "input"
  /\ rd_out' = reduce_function(rd_data)
  /\ rd_pc' = "reduced"
  /\ UNCHANGED <<rd_data, rd_perm_out>>
  /\ UNCHANGED <<pipeVars, ppVars, spVars, tkVars, mpVars, fsVars, mnVars>>

ReducePermuted ==
  /\ rd_pc = "reduced"
  /\ \E p \in Permutations(1..Len(rd_data)) :
       rd_perm_out' = reduce_function(Permute(rd_data, p))
  /\ rd_pc' = "permuted"
  /\ UNCHANGED <<rd_data, rd_out>>
  /\ UNCHANGED <<pipeVars, ppVars, spVars, tkVars, mpVars, fsVars, mnVars>>

-----------------------------------------------------------------------------
(* get_top_words applied to a frequency table *)

TkWords == {<<"a","d","d">>, <<"d","a","d">>, <<"d","a","n">>}

\* the dicts with keys in TkWords and counts in 1..MaxCount
Tables ==
  {t \in SeqsUpTo(TkWords \X (1..MaxCount), Cardinality(TkWords)) :
     \A i, j \in 1..Len(t) : i # j => t[i][1] # t[j][1]}

TKInit ==
  /\ tk_pc = "input"
  /\ tk_table \in Tables
  /\ tk_n \in 0..MaxTopN
  /\ tk_out = <<>>

TKIdle ==
  /\ tk_pc = "idle"
  /\ tk_table = <<>>
  /\ tk_n = 0
  /\ tk_out = <<>>

TopWords ==
  /\ tk_pc = "input"
  /\ tk_out' = get_top_words(tk_table, tk_n)
  /\ tk_pc' = "returned"
  /\ UNCHANGED <<tk_table, tk_n>>
  /\ UNCHANGED <<pipeVars, ppVars, spVars, rdVars, mpVars, fsVars, mnVars>>

-----------------------------------------------------------------------------
(* map_function applied to a chunk *)

MPInit ==
  /\ mp_pc = "input"
  /\ mp_chunk \in SeqsUpTo(LowerLetters \cup {" "}, MaxChunkLen)
  /\ mp_out = <<>>

MPIdle ==
  /\ mp_pc = "idle"
  /\ mp_chunk = <<>>
  /\ mp_out = <<>>

MapChunk ==
  /\ mp_pc = "input"
  /\ mp_out' = map_function(mp_chunk)
  /\ mp_pc' = "mapped"
  /\ UNCHANGED mp_chunk
  /\ UNCHANGED <<pipeVars, ppVars, spVars, rdVars, tkVars, fsVars, mnVars>>

-----------------------------------------------------------------------------
(* async_file_sorter.py: AsyncFileSorter.process_files on the list of files  *)
(* found by read_folder.  The coroutines run on one event loop and are       *)
(* interleaved at their await points: one action is the code between two     *)
(* awaits.  The output folder is a function from (sub-folder, file name) to  *)
(* the file that wrote it last, 0 for a file that was there before the run.  *)

\* pathlib: index of the last dot of the name, 0 without a dot
LastDot(name) ==
  LET dots == {i \in 1..Len(name) : name[i] = "."}
  IN IF dots = {} THEN 0 ELSE CHOOSE i \in dots : \A j \in dots : j <= i

\* PurePath.suffix: from the last dot, unless the dot is first or last
suffix(name) ==
  LET i == LastDot(name)
  IN IF 1 < i /\ i < Len(name) THEN SubSeq(name, i, Len(name)) ELSE <<>>

\* PurePath.stem: the name without its suffix
stem(name) ==
  LET i == LastDot(name)
  IN IF 1 < i /\ i < Len(name) THEN SubSeq(name, 1, i - 1) ELSE name

Digits == <<"0", "1", "2", "3", "4", "5", "6", "7", "8", "9">>

\* str(counter)
RECURSIVE Str(_)
Str(k) ==
  IF k < 10 THEN <<Digits[k + 1]>>
  ELSE Str(k \div 10) \o <<Digits[(k % 10) + 1]>>

no_extension == <<"n","o","_","e","x","t","e","n","s","i","o","n">>

get_file_extension(name) ==
  LET extension == Lower(suffix(name))
  IN IF extension # <<>> THEN Tail(extension) ELSE no_extension

\* f"{stem}_{counter}{suffix}"
new_name(name, counter) == stem(name) \o <<"_">> \o Str(counter) \o suffix(name)

\* the files of the source folder: the same name in two folders, the same
\* extension in another case, a name without extension, and an extension
\* that reads like the name of the folder of the files without extension
SourceFiles ==
  << [dir |-> "d1", name |-> <<"a",".","t","x","t">>],
     [dir |-> "d2", name |-> <<"a",".","t","x","t">>],
     [dir |-> "d1", name |-> <<"a",".","T","X","T">>],
     [dir |-> "d1", name |-> <<"b">>],
     [dir |-> "d1", name |-> <<"c",".">> \o no_extension] >>

\* the members of a set of numbers in increasing order
RECURSIVE Ascending(_)
Ascending(S) ==
  IF S = {} THEN <<>>
  ELSE LET m == CHOOSE x \in S : \A y \in S : x <= y
       IN <<m>> \o Ascending(S \ {m})

\* the lists read_folder may return: at most MaxFiles of the files
FileLists ==
  {[k \in 1..Cardinality(I) |-> SourceFiles[Ascending(I)[k]]] :
     I \in {J \in SUBSET (1..Len(SourceFiles)) : Cardinality(J) <= MaxFiles}}

\* the files that may be in the output folder before the run
OldFiles ==
  { <<<<"t","x","t">>, <<"a",".","t","x","t">>>>,
    <<<<"t","x","t">>, <<"a","_","1",".","t","x","t">>>> }

\* a copy_file coroutine that process_extension_group has not created yet
NewTask == [pc |-> "new", folder |-> <<>>, dest |-> <<>>, counter |-> 0,
            clobbered |-> FALSE]

FSInit ==
  /\ fs_pc = "start"
  /\ fs_files \in FileLists
  /\ fs_groups = <<>>
  /\ fs_tasks = <<>>
  /\ \E old \in SUBSET OldFiles : fs_disk = [p \in old |-> 0]
  /\ files_processed = 0
  /\ errors_count = 0

FSIdle ==
  /\ fs_pc = "idle"
  /\ fs_files = <<>>
  /\ fs_groups = <<>>
  /\ fs_tasks = <<>>
  /\ fs_disk = <<>>
  /\ files_processed = 0
  /\ errors_count = 0

\* the files of the group of an extension
GroupFiles(extension) ==
  {i \in 1..Len(fs_files) : get_file_extension(fs_files[i].name) = extension}

\* if not files: ... return
ReturnNoFiles ==
  /\ fs_pc = "start"
  /\ fs_files = <<>>
  /\ fs_pc' = "returned"
  /\ UNCHANGED <<fs_files, fs_groups, fs_tasks, fs_disk, files_processed,
                 errors_count>>
  /\ UNCHANGED <<pipeVars, ppVars, spVars, rdVars, tkVars, mpVars, mnVars>>

\* process_files: the files grouped by get_file_extension, one
\* process_extension_group coroutine for each group, then gather
ProcessFiles ==
  /\ fs_pc = "start"
  /\ fs_files # <<>>
  /\ fs_groups' =
       [e \in {get_file_extension(fs_files[i].name) : i \in 1..Len(fs_files)} |->
          "new"]
  /\ fs_tasks' = [i \in 1..Len(fs_files) |-> NewTask]
  /\ fs_pc' = "processing"
  /\ UNCHANGED <<fs_files, fs_disk, files_processed, errors_count>>
  /\ UNCHANGED <<pipeVars, ppVars, spVars, rdVars, tkVars, mpVars, mnVars>>

\* process_extension_group: create_extension_folder returned, the copy_file
\* coroutines of the group are created and gathered
CreateFolder(e) ==
  /\ fs_pc = "processing"
  /\ fs_groups[e] = "new"
  /\ fs_groups' = [fs_groups EXCEPT ![e] = "copying"]
  /\ fs_tasks' = [i \in 1..Len(fs_tasks) |->
                    IF i \in GroupFiles(e)
                    THEN [fs_tasks[i] EXCEPT !.pc = "check", !.folder = e]
                    ELSE fs_tasks[i]]
  /\ UNCHANGED <<fs_pc, fs_files, fs_disk, files_processed, errors_count>>
  /\ UNCHANGED <<pipeVars, ppVars, spVars, rdVars, tkVars, mpVars, mnVars>>

\* process_extension_group: create_extension_folder raised; the except
\* clause counts one error and no file of the group is copied
CreateFolderFails(e) ==
  /\ fs_pc = "processing"
  /\ fs_groups[e] = "new"
  /\ fs_groups' = [fs_groups EXCEPT ![e] = "failed"]
  /\ errors_count' = errors_count + 1
  /\ UNCHANGED <<fs_pc, fs_files, fs_tasks, fs_disk, files_processed>>
  /\ UNCHANGED <<pipeVars, ppVars, spVars, rdVars, tkVars, mpVars, mnVars>>

\* copy_file: destination_file = destination_folder / source_file.name;
\* if await destination_file.exists(): ... counter = 1
CopyCheck(i) ==
  /\ fs_pc = "processing"
  /\ fs_tasks[i].pc = "check"
  /\ LET name == fs_files[i].name
         taken == <<fs_tasks[i].folder, name>> \in DOMAIN fs_disk
     IN fs_tasks' = [fs_tasks EXCEPT ![i].dest = name,
                                     ![i].counter = IF taken THEN 1 ELSE 0,
                                     ![i].pc = IF taken THEN "loop" ELSE "open"]
  /\ UNCHANGED <<fs_pc, fs_files, fs_groups, fs_disk, files_processed,
                 errors_count>>
  /\ UNCHANGED <<pipeVars, ppVars, spVars, rdVars, tkVars, mpVars, mnVars>>

\* copy_file: one test of while await destination_file.exists(), and the
\* body of the loop when the name is taken
CopyLoop(i) ==
  /\ fs_pc = "processing"
  /\ fs_tasks[i].pc = "loop"
  /\ LET t == fs_tasks[i]
         taken == <<t.folder, t.dest>> \in DOMAIN fs_disk
     IN fs_tasks' =
          IF taken
          THEN [fs_tasks EXCEPT ![i].dest = new_name(fs_files[i].name, t.counter),
                                ![i].counter = t.counter + 1]
          ELSE [fs_tasks EXCEPT ![i].pc = "open"]
  /\ UNCHANGED <<fs_pc, fs_files, fs_groups, fs_disk, files_processed,
                 errors_count>>
  /\ UNCHANGED <<pipeVars, ppVars, spVars, rdVars, tkVars, mpVars, mnVars>>

\* copy_file: aiofiles.open(source_file, 'rb') and
\* aiofiles.open(destination_file, 'wb'): the destination is created, or
\* truncated when it is there
CopyOpen(i) ==
  /\ fs_pc = "processing"
  /\ fs_tasks[i].pc = "open"
  /\ LET t == fs_tasks[i]
         p == <<t.folder, t.dest>>
     IN /\ fs_disk' = [q \in DOMAIN fs_disk \cup {p} |->
                         IF q = p THEN i ELSE fs_disk[q]]
        /\ fs_tasks' = [fs_tasks EXCEPT ![i].pc = "writing",
                                        ![i].clobbered = p \in DOMAIN fs_disk]
  /\ UNCHANGED <<fs_pc, fs_files, fs_groups, files_processed, errors_count>>
  /\ UNCHANGED <<pipeVars, ppVars, spVars, rdVars, tkVars, mpVars, mnVars>>

\* variant: the counter is read before the chunks are written and stored
\* after, so the increment of a coroutine that writes meanwhile is lost
CopyDone_lost(i) ==
  /\ fs_pc = "processing"
  /\ fs_tasks[i].pc = "writing"
  /\ fs_tasks' = [fs_tasks EXCEPT ![i].pc = "done"]
  /\ files_processed' =
       IF \E j \in 1..Len(fs_tasks) : j # i /\ fs_tasks[j].pc = "writing"
       THEN files_processed
       ELSE files_processed + 1
  /\ UNCHANGED <<fs_pc, fs_files, fs_groups, fs_disk, errors_count>>
  /\ UNCHANGED <<pipeVars, ppVars, spVars, rdVars, tkVars, mpVars, mnVars>>

\* copy_file: the chunks are written; self.files_processed += 1
CopyDone(i) ==
  /\ fs_pc = "processing"
  /\ fs_tasks[i].pc = "writing"
  /\ fs_tasks' = [fs_tasks EXCEPT ![i].pc = "done"]
  /\ files_processed' = files_processed + 1
  /\ UNCHANGED <<fs_pc, fs_files, fs_groups, fs_disk, errors_count>>
  /\ UNCHANGED <<pipeVars, ppVars, spVars, rdVars, tkVars, mpVars, mnVars>>

\* copy_file: an open or a write raised; except: self.errors_count += 1
CopyFail(i) ==
  /\ fs_pc = "processing"
  /\ fs_tasks[i].pc \in {"open", "writing"}
  /\ fs_tasks' = [fs_tasks EXCEPT ![i].pc = "failed"]
  /\ errors_count' = errors_count + 1
  /\ UNCHANGED <<fs_pc, fs_files, fs_groups, fs_disk, files_processed>>
  /\ UNCHANGED <<pipeVars, ppVars, spVars, rdVars, tkVars, mpVars, mnVars>>

\* variant: gather returns only when every file of the group was copied
GroupDone_all_copied(e) ==
  /\ fs_pc = "processing"
  /\ fs_groups[e] = "copying"
  /\ \A i \in GroupFiles(e) : fs_tasks[i].pc = "done"
  /\ fs_groups' = [fs_groups EXCEPT ![e] = "done"]
  /\ UNCHANGED <<fs_pc, fs_files, fs_tasks, fs_disk, files_processed,
                 errors_count>>
  /\ UNCHANGED <<pipeVars, ppVars, spVars, rdVars, tkVars, mpVars, mnVars>>

\* process_extension_group: await asyncio.gather(*copy_tasks) returned
GroupDone(e) ==
  /\ fs_pc = "processing"
  /\ fs_groups[e] = "copying"
  /\ \A i \in GroupFiles(e) : fs_tasks[i].pc \in {"done", "failed"}
  /\ fs_groups' = [fs_groups EXCEPT ![e] = "done"]
  /\ UNCHANGED <<fs_pc, fs_files, fs_tasks, fs_disk, files_processed,
                 errors_count>>
  /\ UNCHANGED <<pipeVars, ppVars, spVars, rdVars, tkVars, mpVars, mnVars>>

\* process_files: await asyncio.gather(*tasks) returned; sort_files logs the
\* statistics and returns
SortDone ==
  /\ fs_pc = "processing"
  /\ \A e \in DOMAIN fs_groups : fs_groups[e] \in {"done", "failed"}
  /\ fs_pc' = "returned"
  /\ UNCHANGED <<fs_files, fs_groups, fs_tasks, fs_disk, files_processed,
                 errors_count>>
  /\ UNCHANGED <<pipeVars, ppVars, spVars, rdVars, tkVars, mpVars, mnVars>>

-----------------------------------------------------------------------------
(* main of mapreduce_word_analysis.py from the return of                     *)
(* mapreduce_word_count to its end.  save_results_to_file and                *)
(* visualize_top_words assign nothing that main reads afterwards.            *)

\* word_frequencies as returned by the analysis, and any integer given as
\* --top-words (type=int, no range)
MNInit ==
  /\ mn_pc = "analysed"
  /\ mn_table \in Tables
  /\ mn_top_n \in -1..MaxTopN
  /\ mn_top_words = <<>>
  /\ mn_error = ""

MNIdle ==
  /\ mn_pc = "idle"
  /\ mn_table = <<>>
  /\ mn_top_n = 0
  /\ mn_top_words = <<>>
  /\ mn_error = ""

\* if not word_frequencies: ... return
MainCheckTable ==
  /\ mn_pc = "analysed"
  /\ mn_pc' = IF mn_table = <<>> THEN "no_words" ELSE "counted"
  /\ UNCHANGED <<mn_table, mn_top_n, mn_top_words, mn_error>>
  /\ UNCHANGED <<pipeVars, ppVars, spVars, rdVars, tkVars, mpVars, fsVars>>

\* top_words = analyzer.get_top_words(word_frequencies, args.top_words)
MainGetTopWords ==
  /\ mn_pc = "counted"
  /\ mn_top_words' = get_top_words(mn_table, mn_top_n)
  /\ mn_pc' = "ranked"
  /\ UNCHANGED <<mn_table, mn_top_n, mn_error>>
  /\ UNCHANGED <<pipeVars, ppVars, spVars, rdVars, tkVars, mpVars, fsVars>>

\* the summary: total_words/unique_words, then top_words[0][0] and
\* top_words[0][1]; on an empty list the subscript raises IndexError, which
\* except Exception catches and logs, and the success message is skipped
MainSummary ==
  /\ mn_pc = "ranked"
  /\ IF mn_top_words = <<>>
     THEN /\ mn_error' = "IndexError"
          /\ mn_pc' = "failed"
     ELSE /\ mn_pc' = "success"
          /\ UNCHANGED mn_error
  /\ UNCHANGED <<mn_table, mn_top_n, mn_top_words>>
  /\ UNCHANGED <<pipeVars, ppVars, spVars, rdVars, tkVars, mpVars, fsVars>>

-----------------------------------------------------------------------------
(* One call of mapreduce_word_count(text) followed by get_top_words.  The   *)
(* pool is ThreadPoolExecutor(max_workers=num_workers); executor.map        *)
(* submits one future per chunk and list(...) takes their results in chunk  *)
(* order, blocking on each.  A map invocation may fault (an exception       *)
(* inside the worker, such as MemoryError): the future then holds it and    *)
(* result() re-raises it in the calling thread.                             *)

\* the raw tokens of the texts given to the pipeline: a stop word, a word
\* with an uppercase letter, a plain word, a short word
Vocab == {<<"a","n","d">>, <<"A","d","d">>, <<"d","a","d">>, <<"d","d">>}

Texts == {Join(ws) : ws \in SeqsUpTo(Vocab, MaxWords)}

\* a submitted work item; calls counts the invocations of map_function on it
NewFuture == [state |-> "pending", result |-> <<>>, calls |-> 0]

Running == {i \in 1..Len(futures) : futures[i].state = "running"}

\* the invocations that have not finished yet
Unfinished == {i \in 1..Len(futures) : futures[i].state \in {"pending", "running"}}

\* variant: ThreadPoolExecutor() without max_workers
pool_size_default(n) == 32

\* ThreadPoolExecutor(max_workers=self.num_workers): the number of threads
pool_size(n) == n

\* variant: a faulted work item is run again
may_start_retry(f) == f.state \in {"pending", "faulted"}

\* a worker thread runs a work item once: it takes it off the queue
may_start(f) == f.state = "pending"

\* variant: the results taken from the last future to the first
next_to_collect_reversed(fs, collected) == Len(fs) - Len(collected)

\* variant: the result of a later future that has finished is taken when
\* the next one in the order of submission has not
next_to_collect_completed(fs, collected) ==
  LET k == Len(collected) + 1
      later == {j \in (k + 1)..Len(fs) : fs[j].state = "done"}
  IN IF fs[k].state \in {"pending", "running"} /\ later # {}
     THEN CHOOSE j \in later : TRUE
     ELSE k

\* the result iterator of executor.map yields the futures in the order of
\* submission
next_to_collect(fs, collected) == Len(collected) + 1

\* variant: no wait for the future
future_ready_nowait(f) == TRUE

\* what Future.result() and executor.shutdown(wait=True) wait for: the
\* future has finished (returned, raised, or was cancelled before it started)
future_ready(f) == f.state \in {"done", "faulted", "cancelled"}

\* variant: the exception of the invocation is dropped, its result is empty
future_raises_never(f) == FALSE

\* Future.result() re-raises the exception of a faulted invocation
future_raises(f) == f.state = "faulted"

\* result_iterator's finally clause: future.cancel() on every future; only a
\* future that has not started is cancelled
cancel_all(fs) ==
  [i \in 1..Len(fs) |->
     IF fs[i].state = "pending" THEN [fs[i] EXCEPT !.state = "cancelled"]
     ELSE fs[i]]

PipeInit ==
  /\ text \in Texts
  /\ num_workers \in -1..MaxWorkers
  /\ top_n \in -1..MaxTopN
  /\ pc = "start"
  /\ clean_text = <<>>
  /\ text_chunks = <<>>
  /\ futures = <<>>
  /\ mapped_results = <<>>
  /\ word_frequencies = <<>>
  /\ top_words = <<>>
  /\ error = ""

\* text = self.preprocess_text(text)
CallPreprocess ==
  /\ pc = "start"
  /\ clean_text' = preprocess_text(text)
  /\ pc' = "preprocessed"
  /\ UNCHANGED <<text, num_workers, top_n, text_chunks, futures,
                 mapped_results, word_frequencies, top_words, error>>
  /\ UNCHANGED <<ppVars, spVars, rdVars, tkVars, mpVars, fsVars, mnVars>>

\* variant: a text without words is refused
CallSplit_rejects_empty ==
  /\ pc = "preprocessed"
  /\ IF num_workers = 0 \/ SplitWS(clean_text) = <<>>
     THEN /\ error' = IF num_workers = 0 THEN "ZeroDivisionError" ELSE "EmptyInput"
          /\ pc' = "raised"
          /\ UNCHANGED text_chunks
     ELSE /\ text_chunks' = IF num_workers < 0 THEN <<>>
                            ELSE split_text_into_chunks(clean_text, num_workers)
          /\ pc' = "chunked"
          /\ UNCHANGED error
  /\ UNCHANGED <<text, num_workers, top_n, clean_text, futures,
                 mapped_results, word_frequencies, top_words>>
  /\ UNCHANGED <<ppVars, spVars, rdVars, tkVars, mpVars, fsVars, mnVars>>

\* text_chunks = self.split_text_into_chunks(text, self.num_workers)
CallSplit ==
  /\ pc = "preprocessed"
  /\ IF num_workers = 0
     THEN /\ error' = "ZeroDivisionError"
          /\ pc' = "raised"
          /\ UNCHANGED text_chunks
     ELSE /\ text_chunks' = IF num_workers < 0 THEN <<>>
                            ELSE split_text_into_chunks(clean_text, num_workers)
          /\ pc' = "chunked"
          /\ UNCHANGED error
  /\ UNCHANGED <<text, num_workers, top_n, clean_text, futures,
                 mapped_results, word_frequencies, top_words>>
  /\ UNCHANGED <<ppVars, spVars, rdVars, tkVars, mpVars, fsVars, mnVars>>

\* with ThreadPoolExecutor(max_workers=self.num_workers) as executor:
\*     executor.map(self.map_function, text_chunks)   -- submits every chunk
SubmitAll ==
  /\ pc = "chunked"
  /\ IF num_workers <= 0
     THEN /\ error' = "ValueError"
          /\ pc' = "raised"
          /\ UNCHANGED futures
     ELSE /\ futures' = [i \in 1..Len(text_chunks) |-> NewFuture]
          /\ pc' = "mapping"
          /\ UNCHANGED error
  /\ UNCHANGED <<text, num_workers, top_n, clean_text, text_chunks,
                 mapped_results, word_frequencies, top_words>>
  /\ UNCHANGED <<ppVars, spVars, rdVars, tkVars, mpVars, fsVars, mnVars>>

\* a free worker thread takes a submitted chunk
StartMap(i) ==
  /\ pc \in {"mapping", "aborting"}
  /\ may_start(futures[i])
  /\ Cardinality(Running) < pool_size(num_workers)
  /\ futures' = [futures EXCEPT ![i] =
                   [state |-> "running", result |-> <<>>, calls |-> @.calls + 1]]
  /\ UNCHANGED <<text, num_workers, top_n, pc, clean_text, text_chunks,
                 mapped_results, word_frequencies, top_words, error>>
  /\ UNCHANGED <<ppVars, spVars, rdVars, tkVars, mpVars, fsVars, mnVars>>

\* variant: the worker empties its chunk in the shared list once it is mapped
FinishMap_consumes(i) ==
  /\ pc \in {"mapping", "aborting"}
  /\ futures[i].state = "running"
  /\ futures' = [futures EXCEPT ![i].state = "done",
                                ![i].result = map_function(text_chunks[i])]
  /\ text_chunks' = [text_chunks EXCEPT ![i] = <<>>]
  /\ UNCHANGED <<text, num_workers, top_n, pc, clean_text,
                 mapped_results, word_frequencies, top_words, error>>
  /\ UNCHANGED <<ppVars, spVars, rdVars, tkVars, mpVars, fsVars, mnVars>>

\* map_function(text_chunks[i]) returns in its worker thread
FinishMap(i) ==
  /\ pc \in {"mapping", "aborting"}
  /\ futures[i].state = "running"
  /\ futures' = [futures EXCEPT ![i].state = "done",
                                ![i].result = map_function(text_chunks[i])]
  /\ UNCHANGED <<text, num_workers, top_n, pc, clean_text, text_chunks,
                 mapped_results, word_frequencies, top_words, error>>
  /\ UNCHANGED <<ppVars, spVars, rdVars, tkVars, mpVars, fsVars, mnVars>>

\* map_function(text_chunks[i]) raises in its worker thread
FaultMap(i) ==
  /\ pc \in {"mapping", "aborting"}
  /\ futures[i].state = "running"
  /\ futures' = [futures EXCEPT ![i].state = "faulted"]
  /\ UNCHANGED <<text, num_workers, top_n, pc, clean_text, text_chunks,
                 mapped_results, word_frequencies, top_words, error>>
  /\ UNCHANGED <<ppVars, spVars, rdVars, tkVars, mpVars, fsVars, mnVars>>

\* list(...) takes the result of the next future, in chunk order
CollectResult ==
  /\ pc = "mapping"
  /\ Len(mapped_results) < Len(futures)
  /\ LET f == futures[next_to_collect(futures, mapped_results)]
     IN /\ future_ready(f)
        /\ IF future_raises(f)
           THEN /\ futures' = cancel_all(futures)
                /\ error' = "WorkerFault"
                /\ pc' = "aborting"
                /\ UNCHANGED mapped_results
           ELSE /\ mapped_results' = Append(mapped_results, f.result)
                /\ UNCHANGED <<futures, error, pc>>
  /\ UNCHANGED <<text, num_workers, top_n, clean_text, text_chunks,
                 word_frequencies, top_words>>
  /\ UNCHANGED <<ppVars, spVars, rdVars, tkVars, mpVars, fsVars, mnVars>>

\* every result is taken: the with block ends, executor.shutdown(wait=True)
LeaveExecutor ==
  /\ pc = "mapping"
  /\ Len(mapped_results) = Len(futures)
  /\ \A i \in 1..Len(futures) : future_ready(futures[i])
  /\ pc' = "mapped"
  /\ UNCHANGED <<text, num_workers, top_n, clean_text, text_chunks, futures,
                 mapped_results, word_frequencies, top_words, error>>
  /\ UNCHANGED <<ppVars, spVars, rdVars, tkVars, mpVars, fsVars, mnVars>>

\* the exception leaves the with block: executor.shutdown(wait=True) waits
\* for the running invocations, then the exception leaves the call
RaiseFault ==
  /\ pc = "aborting"
  /\ \A i \in 1..Len(futures) : future_ready(futures[i])
  /\ pc' = "raised"
  /\ UNCHANGED <<text, num_workers, top_n, clean_text, text_chunks, futures,
                 mapped_results, word_frequencies, top_words, error>>
  /\ UNCHANGED <<ppVars, spVars, rdVars, tkVars, mpVars, fsVars, mnVars>>

\* word_frequencies = self.reduce_function(mapped_results)
CallReduce ==
  /\ pc = "mapped"
  /\ pc' = "reducing"
  /\ UNCHANGED <<text, num_workers, top_n, clean_text, text_chunks, futures,
                 mapped_results, word_frequencies, top_words, error>>
  /\ UNCHANGED <<ppVars, spVars, rdVars, tkVars, mpVars, fsVars, mnVars>>

\* return word_frequencies
ReturnTable ==
  /\ pc = "reducing"
  /\ word_frequencies' = reduce_function(mapped_results)
  /\ pc' = "returned"
  /\ UNCHANGED <<text, num_workers, top_n, clean_text, text_chunks, futures,
                 mapped_results, top_words, error>>
  /\ UNCHANGED <<ppVars, spVars, rdVars, tkVars, mpVars, fsVars, mnVars>>

\* top_words = analyzer.get_top_words(word_frequencies, top_n)
CallGetTopWords ==
  /\ pc = "returned"
  /\ top_words' = get_top_words(word_frequencies, top_n)
  /\ pc' = "done"
  /\ UNCHANGED <<text, num_workers, top_n, clean_text, text_chunks, futures,
                 mapped_results, word_frequencies, error>>
  /\ UNCHANGED <<ppVars, spVars, rdVars, tkVars, mpVars, fsVars, mnVars>>

Init == PipeInit /\ PPIdle /\ SPIdle /\ RDIdle /\ TKIdle /\ MPIdle /\ FSIdle /\ MNIdle

Next ==
  \/ CallPreprocess
  \/ CallSplit
  \/ SubmitAll
  \/ \E i \in 1..Len(futures) : StartMap(i)
  \/ \E i \in 1..Len(futures) : FinishMap(i)
  \/ \E i \in 1..Len(futures) : FaultMap(i)
  \/ CollectResult
  \/ LeaveExecutor
  \/ RaiseFault
  \/ CallReduce
  \/ ReturnTable
  \/ CallGetTopWords

Spec == Init /\ [][Next]_vars

-----------------------------------------------------------------------------
(* Specifications of the single functions *)

PipeIdle ==
  /\ text = <<>>
  /\ num_workers = 1
  /\ top_n = 0
  /\ pc = "idle"
  /\ clean_text = <<>>
  /\ text_chunks = <<>>
  /\ futures = <<>>
  /\ mapped_results = <<>>
  /\ word_frequencies = <<>>
  /\ top_words = <<>>
  /\ error = ""

InitNormalize == PPInit /\ PipeIdle /\ SPIdle /\ RDIdle /\ TKIdle /\ MPIdle /\ FSIdle /\ MNIdle
NextNormalize == Preprocess \/ PreprocessAgain
SpecNormalize == InitNormalize /\ [][NextNormalize]_vars

InitSplit == SPInit /\ PipeIdle /\ PPIdle /\ RDIdle /\ TKIdle /\ MPIdle /\ FSIdle /\ MNIdle
NextSplit == Split
SpecSplit == InitSplit /\ [][NextSplit]_vars

InitReduce == RDInit /\ PipeIdle /\ PPIdle /\ SPIdle /\ TKIdle /\ MPIdle /\ FSIdle /\ MNIdle
NextReduce == Reduce \/ ReducePermuted
SpecReduce == InitReduce /\ [][NextReduce]_vars

InitTopK == TKInit /\ PipeIdle /\ PPIdle /\ SPIdle /\ RDIdle /\ MPIdle /\ FSIdle /\ MNIdle
NextTopK == TopWords
SpecTopK == InitTopK /\ [][NextTopK]_vars

\* the pool given a chunk list of any length: line 186-187 with
\* len(text_chunks) below, at and above max_workers
PoolChunks == {<<>>, <<"d","a","d">>}

PoolInit ==
  /\ text = <<>>
  /\ num_workers \in 1..MaxWorkers
  /\ top_n = 0
  /\ pc = "chunked"
  /\ clean_text = <<>>
  /\ text_chunks \in SeqsUpTo(PoolChunks, MaxWorkers + 1)
  /\ futures = <<>>
  /\ mapped_results = <<>>
  /\ word_frequencies = <<>>
  /\ top_words = <<>>
  /\ error = ""

InitPool == PoolInit /\ PPIdle /\ SPIdle /\ RDIdle /\ TKIdle /\ MPIdle /\ FSIdle /\ MNIdle

NextPool ==
  \/ SubmitAll
  \/ \E i \in 1..Len(futures) : StartMap(i)
  \/ \E i \in 1..Len(futures) : FinishMap(i)
  \/ \E i \in 1..Len(futures) : FaultMap(i)
  \/ CollectResult
  \/ LeaveExecutor
  \/ RaiseFault

SpecPool == InitPool /\ [][NextPool]_vars

\* the raw texts whose normalized text has no word
EmptyTexts ==
  {t \in SeqsUpTo(RawChars, MaxEmptyLen) \cup {<<"<", "a", ">">>, <<"1", " ", "1">>} :
     SplitWS(preprocess_text(t)) = <<>>}

\* a call with a text without words and a worker count of at least one
EmptyInit ==
  /\ text \in EmptyTexts
  /\ num_workers \in 1..MaxWorkers
  /\ top_n \in -1..MaxTopN
  /\ pc = "start"
  /\ clean_text = <<>>
  /\ text_chunks = <<>>
  /\ futures = <<>>
  /\ mapped_results = <<>>
  /\ word_frequencies = <<>>
  /\ top_words = <<>>
  /\ error = ""

InitEmptyInput == EmptyInit /\ PPIdle /\ SPIdle /\ RDIdle /\ TKIdle /\ MPIdle /\ FSIdle /\ MNIdle

SpecEmptyInput == InitEmptyInput /\ [][Next]_vars

InitMap == MPInit /\ PipeIdle /\ PPIdle /\ SPIdle /\ RDIdle /\ TKIdle /\ FSIdle /\ MNIdle
NextMap == MapChunk
SpecMap == InitMap /\ [][NextMap]_vars

InitSorter ==
  FSInit /\ PipeIdle /\ PPIdle /\ SPIdle /\ RDIdle /\ TKIdle /\ MPIdle /\ MNIdle

NextSorter ==
  \/ ReturnNoFiles
  \/ ProcessFiles
  \/ \E e \in DOMAIN fs_groups : CreateFolder(e)
  \/ \E e \in DOMAIN fs_groups : CreateFolderFails(e)
  \/ \E i \in 1..Len(fs_tasks) : CopyCheck(i)
  \/ \E i \in 1..Len(fs_tasks) : CopyLoop(i)
  \/ \E i \in 1..Len(fs_tasks) : CopyOpen(i)
  \/ \E i \in 1..Len(fs_tasks) : CopyDone(i)
  \/ \E i \in 1..Len(fs_tasks) : CopyFail(i)
  \/ \E e \in DOMAIN fs_groups : GroupDone(e)
  \/ SortDone

SpecSorter == InitSorter /\ [][NextSorter]_vars

InitMain ==
  MNInit /\ PipeIdle /\ PPIdle /\ SPIdle /\ RDIdle /\ TKIdle /\ MPIdle /\ FSIdle

NextMain == MainCheckTable \/ MainGetTopWords \/ MainSummary

SpecMain == InitMain /\ [][NextMain]_vars

-----------------------------------------------------------------------------
(* Properties *)

SameMapping(d1, d2) ==
  /\ Keys(d1) = Keys(d2)
  /\ \A k \in Keys(d1) : Value(d1, k) = Value(d2, k)

Occurrences(words, w) == Cardinality({i \in 1..Len(words) : words[i] = w})

SegmentWords == [i \in 1..Len(sp_chunks) |-> SplitWS(sp_chunks[i])]

\* C1: the word lists of the chunks of split_text_into_chunks, concatenated
\* in chunk order, are the word list of the text (nothing lost, duplicated
\* or reordered), and their lengths add up to the number of words.
C1_SplitComplete ==
  sp_pc = "split" =>
    /\ Concat(SegmentWords) = SplitWS(sp_text)
    /\ SumLen(SegmentWords) = Len(SplitWS(sp_text))

\* a text of three words cut in two: the last chunk takes the remainder
C1_Witness ==
  /\ sp_pc = "split"
  /\ sp_num_chunks = 2
  /\ Len(SplitWS(sp_text)) = 3
  /\ Len(SplitWS(sp_chunks[1])) = 1
  /\ Len(SplitWS(sp_chunks[2])) = 2

AllWords == SplitWS(preprocess_text(text))

RetainedWords ==
  {AllWords[i] : i \in {j \in 1..Len(AllWords) :
                          Len(AllWords[j]) > 2 /\ AllWords[j] \notin stop_words}}

\* C2: the table returned by mapreduce_word_count has as keys the words of
\* the normalized text longer than 2 that are no stop words, each with its
\* number of occurrences in the whole text, for every worker count >= 1.
C2_TableIsSequentialCount ==
  pc \in {"returned", "done"} =>
    /\ Keys(word_frequencies) = RetainedWords
    /\ \A w \in RetainedWords :
         Value(word_frequencies, w) = Occurrences(AllWords, w)
    /\ \A i, j \in 1..Len(word_frequencies) :
         i # j => word_frequencies[i][1] # word_frequencies[j][1]

\* more workers than words, and a word counted twice
C2_Witness ==
  /\ pc = "returned"
  /\ num_workers > Len(AllWords)
  /\ \E i \in 1..Len(text_chunks) : text_chunks[i] = <<>>
  /\ \E i \in 1..Len(word_frequencies) : word_frequencies[i][2] = 2

\* C3: while reduce_function runs, and once the table is returned, no map
\* invocation of the run is pending or running.
C3_ReduceAfterBarrier ==
  pc \in {"mapped", "reducing", "returned", "done"} =>
    \A i \in 1..Len(futures) : futures[i].state = "done"

C3_Witness ==
  /\ pc = "reducing"
  /\ Len(futures) >= 2
  /\ \A i \in 1..Len(futures) : futures[i].state = "done"

Faulted == {i \in 1..Len(futures) : futures[i].state = "faulted"}

\* C4: a run in which a map invocation faulted returns no table and ends by
\* raising the fault; a table is only ever built from the map results of all
\* the chunks.
C4_AllOrNothing ==
  /\ Faulted # {} =>
       /\ pc \in {"mapping", "aborting", "raised"}
       /\ word_frequencies = <<>>
       /\ pc = "raised" => error = "WorkerFault"
  /\ pc \in {"reducing", "returned", "done"} =>
       /\ Len(mapped_results) = Len(text_chunks)
       /\ \A i \in 1..Len(text_chunks) :
            mapped_results[i] = map_function(text_chunks[i])
  /\ pc \in {"returned", "done"} =>
       word_frequencies = reduce_function(mapped_results)

\* the call has raised the fault of one chunk after another chunk was mapped
C4_Witness ==
  /\ pc = "raised"
  /\ error = "WorkerFault"
  /\ Faulted # {}
  /\ \E i \in 1..Len(futures) :
       futures[i].state = "done" /\ futures[i].result # <<>>

\* C5: with workerCount < 1 or topK < 0 the call is rejected before any step
\* of the pipeline is performed, and no result is returned.
C5_InvalidConfigRejected ==
  (num_workers < 1 \/ top_n < 0) =>
    /\ pc \in {"start", "raised"}
    /\ pc = "raised" => clean_text = <<>> /\ text_chunks = <<>>

\* C6: reduce_function returns the same mapping for a list of word lists and
\* for every permutation of it.
C6_ReducePermutationInvariant ==
  rd_pc = "permuted" => SameMapping(rd_out, rd_perm_out)

\* the permutation changed the order in which the words were first met, and
\* a count was summed over two lists
C6_Witness ==
  /\ rd_pc = "permuted"
  /\ rd_out # rd_perm_out
  /\ \E i \in 1..Len(rd_out) :
       \E a, b \in 1..Len(rd_data) :
          /\ a # b
          /\ \E x \in 1..Len(rd_data[a]) : rd_data[a][x][1] = rd_out[i][1]
          /\ \E y \in 1..Len(rd_data[b]) : rd_data[b][y][1] = rd_out[i][1]

\* C7: preprocess_text(preprocess_text(x)) = preprocess_text(x).
C7_NormalizeIdempotent ==
  pp_pc = "twice" => pp_twice = pp_once

\* C8: the output of preprocess_text holds only lowercase letters and
\* spaces, no two adjacent spaces, and no leading or trailing space.
C8_NormalizedShape ==
  pp_pc \in {"once", "twice"} =>
    /\ \A i \in 1..Len(pp_once) : pp_once[i] \in LowerLetters \cup {" "}
    /\ \A i \in 1..(Len(pp_once) - 1) : ~(pp_once[i] = " " /\ pp_once[i + 1] = " ")
    /\ pp_once # <<>> => pp_once[1] # " " /\ pp_once[Len(pp_once)] # " "

\* C9: get_top_words(table, k) for k >= 0 returns min(k, number of words)
\* entries of the table, no word twice, counts non-increasing, no word left
\* out with a count greater than a word included; nothing for an empty table.
C9_TopK ==
  tk_pc = "returned" =>
    /\ Len(tk_out) = Min(tk_n, Len(tk_table))
    /\ \A i \in 1..Len(tk_out) : \E j \in 1..Len(tk_table) : tk_out[i] = tk_table[j]
    /\ \A i, j \in 1..Len(tk_out) : i # j => tk_out[i][1] # tk_out[j][1]
    /\ \A i \in 1..(Len(tk_out) - 1) : tk_out[i][2] >= tk_out[i + 1][2]
    /\ \A j \in 1..Len(tk_table) :
         tk_table[j][1] \notin Keys(tk_out) =>
           \A i \in 1..Len(tk_out) : tk_table[j][2] <= tk_out[i][2]
    /\ tk_table = <<>> => tk_out = <<>>

\* two of three words asked for, the table not in the order of the counts
C9_Witness ==
  /\ tk_pc = "returned"
  /\ tk_n = 2
  /\ Len(tk_table) = 3
  /\ tk_table[1][2] < tk_table[3][2]
  /\ Len(tk_out) = 2

\* C10: no key of the table returned by mapreduce_word_count is a stop word
\* or has length <= 2, and every count is >= 1.
C10_NoStopOrShortWord ==
  pc \in {"returned", "done"} =>
    \A i \in 1..Len(word_frequencies) :
       /\ word_frequencies[i][1] \notin stop_words
       /\ Len(word_frequencies[i][1]) > 2
       /\ word_frequencies[i][2] >= 1

\* a text with a stop word, a short word and a retained word
C10_Witness ==
  /\ pc = "returned"
  /\ \E i \in 1..Len(AllWords) : AllWords[i] \in stop_words
  /\ \E i \in 1..Len(AllWords) : Len(AllWords[i]) <= 2 /\ AllWords[i] \notin stop_words
  /\ word_frequencies # <<>>

-----------------------------------------------------------------------------
(* The map phase *)

\* C11: list(executor.map(...)) holds one result list per chunk, the i-th
\* being map_function of the i-th chunk, whatever the order in which the
\* invocations finish; while the results are taken the list is a prefix of it.
C11_ResultsInChunkOrder ==
  /\ pc \in {"mapping", "aborting"} =>
       /\ Len(mapped_results) <= Len(text_chunks)
       /\ \A i \in 1..Len(mapped_results) :
            mapped_results[i] = map_function(text_chunks[i])
  /\ pc = "mapped" =>
       /\ Len(mapped_results) = Len(text_chunks)
       /\ \A i \in 1..Len(text_chunks) :
            mapped_results[i] = map_function(text_chunks[i])

\* the first result is taken and the third chunk is mapped while the second
\* is still running, the results of the first and the third differ
C11_Witness ==
  /\ pc = "mapping"
  /\ Len(mapped_results) = 1
  /\ \E i \in Unfinished : \E j \in 1..Len(futures) :
       /\ i < j
       /\ futures[i].state = "running"
       /\ futures[j].state = "done"
       /\ futures[j].result # mapped_results[1]

\* the table and the top words computed from the input alone, one chunk
\* after the other
SequentialTable ==
  LET chunks == split_text_into_chunks(preprocess_text(text), num_workers)
  IN reduce_function([i \in 1..Len(chunks) |-> map_function(chunks[i])])

SequentialTopWords == get_top_words(SequentialTable, top_n)

\* C12: the table and the top words of a run are determined by the text, the
\* worker count and top_n: every run returns the entries of the table in the
\* same order and the same top_words sequence, ties included, whatever the
\* order in which the map invocations finish.
C12_Deterministic ==
  /\ pc \in {"returned", "done"} => word_frequencies = SequentialTable
  /\ pc = "done" => top_words = SequentialTopWords

\* two words mapped by different workers tie in the top words
C12_Witness ==
  /\ pc = "done"
  /\ num_workers >= 2
  /\ Len(top_words) = 2
  /\ top_words[1][2] = top_words[2][2]
  /\ map_function(text_chunks[1]) # <<>>
  /\ map_function(text_chunks[Len(text_chunks)]) # <<>>

\* C13: for a text whose normalized text has no word and a worker count >= 1
\* the call raises nothing of its own (it fails only on the fault of a map
\* invocation), the table returned is empty and so are the top words.
C13_EmptyInputNoError ==
  SplitWS(preprocess_text(text)) = <<>> /\ num_workers >= 1 =>
    /\ error # "" => error = "WorkerFault" /\ Faulted # {}
    /\ pc = "raised" => error = "WorkerFault"
    /\ pc \in {"returned", "done"} => word_frequencies = <<>>
    /\ pc = "done" => top_words = <<>>

\* a text of characters that are no letters, given to two workers or more
C13_Witness ==
  /\ pc = "done"
  /\ text # <<>>
  /\ \E i \in 1..Len(text) : text[i] \notin Whitespace
  /\ num_workers >= 2
  /\ top_n >= 1
  /\ word_frequencies = <<>>
  /\ top_words = <<>>

\* C14: split_text_into_chunks(text, n) returns n chunks; with base the
\* integer quotient of the number of words by n, chunk i < n-1 is the words
\* [i*base, (i+1)*base) and the last chunk the words [(n-1)*base, total);
\* with fewer words than chunks every chunk but the last is empty.
C14_ChunkRanges ==
  sp_pc = "split" =>
    LET words == SplitWS(sp_text)
        total == Len(words)
        n == sp_num_chunks
        base == total \div n
    IN /\ Len(sp_chunks) = n
       /\ \A i \in 0..(n - 2) :
            sp_chunks[i + 1] = Join(SubSeq(words, i * base + 1, (i + 1) * base))
       /\ sp_chunks[n] = Join(SubSeq(words, (n - 1) * base + 1, total))
       /\ total < n => \A i \in 1..(n - 1) : sp_chunks[i] = <<>>

\* two words cut in three: the last chunk holds both
C14_Witness ==
  /\ sp_pc = "split"
  /\ sp_num_chunks = 3
  /\ Len(SplitWS(sp_text)) = 2
  /\ Len(SplitWS(sp_chunks[3])) = 2

\* C15: never more than num_workers invocations of map_function run at the
\* same time, for chunk lists shorter and longer than num_workers.
C15_BoundedParallelism ==
  pc \in {"mapping", "aborting"} => Cardinality(Running) <= num_workers

\* more chunks than workers: every worker is busy and a chunk is waiting
C15_Witness ==
  /\ pc = "mapping"
  /\ Len(text_chunks) > num_workers
  /\ Cardinality(Running) = num_workers
  /\ \E i \in 1..Len(futures) : futures[i].state = "pending"

\* what a step taken during the map phase leaves alone
MapPhaseStep ==
  pc \in {"mapping", "aborting"} =>
    /\ text_chunks' = text_chunks
    /\ num_workers' = num_workers
    /\ clean_text' = clean_text
    /\ text' = text
    /\ \A i \in 1..Len(futures') :
         futures'[i].state = "done" =>
           futures'[i].result = map_function(text_chunks[i])

\* C16: a step of the map phase writes neither the text, nor the worker
\* count, nor the list of chunks (stop_words is assigned in __init__ only),
\* and the result of an invocation is map_function of its own chunk.
C16_MapPhaseFrame == [][MapPhaseStep]_vars

\* two invocations run at the same time after a third has returned
C16_Witness ==
  /\ pc = "mapping"
  /\ Cardinality(Running) >= 2
  /\ \E i \in 1..Len(futures) :
       futures[i].state = "done" /\ futures[i].result # <<>>

\* C17: no chunk is given to map_function twice, every chunk is given to it
\* once when the call returns a table, an invocation that faulted is not run
\* again, and after a fault the call never returns a table: once the call is
\* over it has raised the fault.
C17_AtMostOnceNoRetry ==
  /\ \A i \in 1..Len(futures) : futures[i].calls <= 1
  /\ pc \in {"mapped", "reducing", "returned", "done"} =>
       /\ Len(futures) = Len(text_chunks)
       /\ \A i \in 1..Len(futures) : futures[i].calls = 1
  /\ Faulted # {} =>
       /\ pc \in {"mapping", "aborting", "raised"}
       /\ \A i \in Faulted : futures[i].calls = 1
       /\ pc = "raised" => error = "WorkerFault"

\* the call has raised after a fault, a chunk submitted was never started
C17_Witness ==
  /\ pc = "raised"
  /\ Faulted # {}
  /\ \E i \in 1..Len(futures) : futures[i].state = "cancelled" /\ futures[i].calls = 0

\* the tokens of the chunk given to map_function, and the positions of those
\* longer than 2 that are no stop words
MapTokens == SplitWS(mp_chunk)

MapRetained ==
  {i \in 1..Len(MapTokens) :
     Len(MapTokens[i]) > 2 /\ MapTokens[i] \notin stop_words}

\* C18: map_function returns, for each token of the chunk longer than 2 that
\* is no stop word and for no other, the pair (token, 1), in the order of
\* the tokens in the chunk, once for each occurrence.
C18_MapOutput ==
  mp_pc = "mapped" =>
    /\ Len(mp_out) = Cardinality(MapRetained)
    /\ \A i \in MapRetained :
         mp_out[Cardinality({j \in MapRetained : j <= i})] = <<MapTokens[i], 1>>

\* a chunk with the same retained word twice
C18_Witness ==
  /\ mp_pc = "mapped"
  /\ Len(mp_out) = 2
  /\ mp_out[1] = mp_out[2]
  /\ Len(MapTokens) = 2

-----------------------------------------------------------------------------
(* The file sorter *)

\* the files whose copy_file has returned after self.files_processed += 1
Copied == {i \in 1..Len(fs_tasks) : fs_tasks[i].pc = "done"}

\* the lowercased suffix of the name of a file, empty without extension
ExtensionOf(i) == Lower(suffix(fs_files[i].name))

\* C19: a file that was copied is in the sub-folder named after its
\* lowercased extension without the dot, or in no_extension when its name
\* has no extension; two copied files are in the same sub-folder exactly
\* when they have the same lowercased extension, or both have none.
C19_FolderByExtension ==
  /\ \A i \in Copied :
       /\ fs_tasks[i].folder =
            IF ExtensionOf(i) = <<>> THEN no_extension ELSE Tail(ExtensionOf(i))
       /\ <<fs_tasks[i].folder, fs_tasks[i].dest>> \in DOMAIN fs_disk
  /\ \A i, j \in Copied :
       (ExtensionOf(i) = ExtensionOf(j)) <=> (fs_tasks[i].folder = fs_tasks[j].folder)

\* the files whose copy_file has opened its destination for writing
Written == {i \in 1..Len(fs_tasks) : fs_tasks[i].pc \in {"writing", "done"}}

\* C20: no two files are written to the same path of the output folder, no
\* file is written over a file that is there when it is opened, and the name
\* written is the name of the source or <stem>_<k><suffix> with k >= 1.
C20_NoOverwrite ==
  /\ \A i, j \in Written :
       i # j => <<fs_tasks[i].folder, fs_tasks[i].dest>> #
                <<fs_tasks[j].folder, fs_tasks[j].dest>>
  /\ \A i \in Written :
       /\ ~fs_tasks[i].clobbered
       /\ \/ fs_tasks[i].dest = fs_files[i].name
          \/ \E k \in 1..(Len(fs_files) + Cardinality(OldFiles)) :
               fs_tasks[i].dest = new_name(fs_files[i].name, k)

\* the files whose copy_file has ended in its except clause
FailedCopies == {i \in 1..Len(fs_tasks) : fs_tasks[i].pc = "failed"}

\* the groups whose folder could not be created
FailedGroups == {e \in DOMAIN fs_groups : fs_groups[e] = "failed"}

\* C21: files_processed is the number of copy_file calls that have ended
\* normally and errors_count the number that have ended in the except
\* clause plus the number of folders not created, at every moment of every
\* interleaving; files_processed never exceeds the number of files, and once
\* process_files has returned with every folder created the two counters
\* add up to the number of files.
C21_CountersExact ==
  /\ files_processed = Cardinality(Copied)
  /\ errors_count = Cardinality(FailedCopies) + Cardinality(FailedGroups)
  /\ files_processed <= Len(fs_files)
  /\ (fs_pc = "returned" /\ FailedGroups = {}) =>
       files_processed + errors_count = Len(fs_files)

\* the run is over, every folder was created, a copy failed and two files
\* were copied
C21_Witness ==
  /\ fs_pc = "returned"
  /\ fs_files # <<>>
  /\ FailedGroups = {}
  /\ errors_count = 1
  /\ files_processed = 2

\* nothing runs: no folder is to be created and no copy_file is under way
Quiet ==
  /\ fs_pc = "processing"
  /\ \A e \in DOMAIN fs_groups : fs_groups[e] # "new"
  /\ \A i \in 1..Len(fs_tasks) : fs_tasks[i].pc \in {"new", "done", "failed"}

\* C22: the failure of a copy or of the creation of a folder is counted in
\* errors_count and stops nothing else: the copy_file of every file whose
\* folder was created ends, copied or failed, before sort_files returns, and
\* when nothing runs any more a gather can return, so that sort_files
\* returns.
C22_FailureIsolated ==
  /\ errors_count = Cardinality(FailedCopies) + Cardinality(FailedGroups)
  /\ fs_pc = "returned" =>
       /\ \A e \in DOMAIN fs_groups : fs_groups[e] \in {"done", "failed"}
       /\ \A e \in DOMAIN fs_groups : \A i \in GroupFiles(e) :
            IF fs_groups[e] = "failed" THEN fs_tasks[i].pc = "new"
            ELSE fs_tasks[i].pc \in {"done", "failed"}
  /\ \A e \in DOMAIN fs_groups :
       fs_groups[e] = "done" =>
         \A i \in GroupFiles(e) : fs_tasks[i].pc \in {"done", "failed"}
  /\ Quiet => ENABLED (SortDone \/ \E e \in DOMAIN fs_groups : GroupDone(e))

\* sort_files has returned after a copy failed and a folder was not created,
\* and a file of the group of the failed copy was copied
C22_Witness ==
  /\ fs_pc = "returned"
  /\ FailedGroups # {}
  /\ \E i \in FailedCopies : \E j \in Copied :
       fs_tasks[i].folder = fs_tasks[j].folder
  /\ errors_count = 2

-----------------------------------------------------------------------------
(* main of the word analysis *)

\* C23: with a table that is not empty main reaches the success message for
\* every value of --top-words: the summary is never reached with an empty
\* top_words and main never ends in the except clause.
C23_SummaryReached ==
  mn_table # <<>> =>
    /\ mn_pc = "ranked" => mn_top_words # <<>>
    /\ mn_pc # "failed"
    /\ mn_error = ""

====
